---- MODULE Spec2Model ----
(***************************************************************************)
(* A model of the interactive part of netgraph/_main.py: the selection /   *)
(* drag state machine DraggableArtists and the dependent-geometry updater  *)
(* of InteractiveGraph (_move, _update_nodes, _update_edges).              *)
(*                                                                         *)
(* Coordinates are integers on a small grid.  A node artist is identified  *)
(* with its node (InteractiveGraph._draggable_artist_to_node is a          *)
(* bijection).  An event handler that raises is modelled by the state its  *)
(* partial execution leaves behind: matplotlib's callback registry reports *)
(* the exception and the program goes on with the next event.              *)
(***************************************************************************)
EXTENDS Integers, Sequences, FiniteSets, TLC

\* ------------------------------------------------------------------ bounds
\* Pointer and node coordinates range over 0..MaxX by 0..MaxY.
MaxX == 1
MaxY == 1

\* A behaviour is followed through at most MaxErrors handler calls that raise.
MaxErrors == 1

\* The subdivision count n of _insert_control_points ranges over -1 .. MaxN.
MaxN == 2

Xs == 0 .. MaxX
Ys == 0 .. MaxY
Points == Xs \X Ys

\* The nodes of the graph, in the iteration order of node_positions.
Nodes == {1, 2}
NodeOrder == <<1, 2>>

\* Python's None where a node (an artist) is expected; nodes are 1, 2, ...
None == 0

\* dict()
EmptyDict == [x \in {} |-> 0]

\* ------------------------------------------------------------ sequences
Range(s) == {s[i] : i \in DOMAIN s}

InSeq(x, s) == \E i \in DOMAIN s : s[i] = x

\* [a for a in s if a != x]
RECURSIVE Without(_, _)
Without(s, x) ==
    IF s = <<>> THEN <<>>
    ELSE IF Head(s) = x THEN Without(Tail(s), x)
         ELSE <<Head(s)>> \o Without(Tail(s), x)

\* ------------------------------------------------------------- geometry
\* A real coordinate b + k * (width / 2) * num / sqrt(n2), kept symbolically:
\* k counts half edge widths, num / sqrt(n2) is one component of a unit
\* vector.  NaN is numpy's result of dividing by a zero norm (n2 = 0).
Exact(b) == [b |-> b, k |-> 0, num |-> 0, n2 |-> 1]

NaN == [b |-> 0, k |-> 0, num |-> 0, n2 |-> 0]

Shifted(b, k, num, n2) ==
    IF n2 = 0 THEN NaN ELSE [b |-> b, k |-> k, num |-> num, n2 |-> n2]

\* _shift_edge(x1, y1, x2, y2, delta) with delta = k * (width / 2):
\* v = (x2-x1, y2-y1); orthogonal (-v[1], v[0]); divided by its norm.
_shift_edge(x1, y1, x2, y2, k) ==
    LET vx == x2 - x1
        vy == y2 - y1
        ox == 0 - vy
        oy == vx
        n2 == ox * ox + oy * oy
    IN  << Shifted(x1, k, ox, n2), Shifted(y1, k, oy, n2),
           Shifted(x2, k, ox, n2), Shifted(y2, k, oy, n2) >>

\* np.c_[[x0, x1], [y0, y1]]: the two points of a straight midline.
Midline(x0, y0, x1, y1) == [kind |-> "line", p |-> <<x0, y0>>, q |-> <<x1, y1>>]

\* ---------------------------------------------------------------- state
VARIABLES
    edge_list,                      \* Graph.edge_list: sequence of (source, target)
    node_positions,                 \* Graph.node_positions: node -> (x, y)
    artist_xy,                      \* NodeArtist.xy of each node's draggable artist
    node_label_artists,             \* hasattr: the attribute exists; xy: labelled node -> text position
    edge_midline,                   \* EdgeArtist.midline of each edge
    edge_label_artists,             \* hasattr: the attribute exists; xy: labelled edge -> text position
    alpha,                          \* artist.get_alpha() of each node's draggable artist
    _base_alpha,                    \* dict artist -> alpha at construction
    _selected_artists,              \* list, in order of selection
    _offset,                        \* dict artist -> (dx, dy)
    _clicked_artist,
    _control_is_held,
    _currently_clicking_on_artist,
    _currently_dragging,
    _currently_selecting,
    _rect_visible,
    _x0, _y0, _x1, _y1,
    total_control_points_per_edge,  \* the argument n of _insert_control_points
    straight,                       \* what draw_edges(..., curved=False) returned or raised
    inserted,                       \* what each call of _insert_control_points returned or raised
    control_point_positions,        \* the dict of that name in _get_curved_edge_paths
    errors,                         \* how many handler calls have raised so far
    gesture                         \* history: the last press and what followed it

graph_vars == <<edge_list, node_positions, artist_xy, node_label_artists, edge_midline,
                edge_label_artists>>

machine_vars ==
    <<alpha, _base_alpha, _selected_artists, _offset, _clicked_artist, _control_is_held,
      _currently_clicking_on_artist, _currently_dragging, _currently_selecting,
      _rect_visible, _x0, _y0, _x1, _y1>>

history_vars == <<errors, gesture>>

route_vars ==
    <<total_control_points_per_edge, straight, inserted, control_point_positions>>

vars == <<graph_vars, machine_vars, history_vars, route_vars>>

\* ------------------------------------------------------- construction
Edges(el) == Range(el)

IsSelfLoop(e) == e[1] = e[2]

Reverse(e) == <<e[2], e[1]>>

\* The path a B-spline fit returns for an edge drawn with curved=True, known
\* here only by the anchors it was fitted through.
BSpline(ps, e) == [kind |-> "bspline", p |-> ps[e[1]], q |-> ps[e[2]]]

\* _get_straight_edge_paths: self-loops are skipped; for an edge whose
\* reverse is in the list the shift reads the undefined name `width`.
\* The result is [raised |-> the exception or "", paths |-> edge -> path].
_get_straight_edge_paths(el, ps) ==
    IF \E e \in Edges(el) : ~IsSelfLoop(e) /\ InSeq(Reverse(e), el)
    THEN [raised |-> "NameError", paths |-> EmptyDict]
    ELSE [raised |-> "",
          paths |-> [e \in {f \in Edges(el) : ~IsSelfLoop(f)} |->
                        Midline(Exact(ps[e[1]][1]), Exact(ps[e[1]][2]),
                                Exact(ps[e[2]][1]), Exact(ps[e[2]][2]))]]

_get_curved_edge_paths(el, ps) ==
    [raised |-> "", paths |-> [e \in Edges(el) |-> BSpline(ps, e)]]

\* draw_edges: the paths, then one EdgeArtist per edge of the list built
\* from edge_paths[(source, target)].
draw_edges(el, ps, curved) ==
    LET edge_paths == IF curved THEN _get_curved_edge_paths(el, ps)
                      ELSE _get_straight_edge_paths(el, ps)
    IN  IF edge_paths.raised # "" THEN edge_paths
        ELSE IF \E e \in Edges(el) : e \notin DOMAIN edge_paths.paths
             THEN [raised |-> "KeyError", paths |-> EmptyDict]
        ELSE edge_paths

\* A relative position num / den along an edge; edge_label_position = 0.5 is
\* the default of draw_edge_labels and of _update_edge_labels.
RelativePosition(num, den) == [num |-> num, den |-> den]

HalfWay == RelativePosition(1, 2)

\* A real coordinate b / den + k * (width / 2) * num / sqrt(n2) of a label.
NaNPoint == [b |-> 0, den |-> 0, k |-> 0, num |-> 0, n2 |-> 0]

\* x1 * edge_label_position + x2 * (1.0 - edge_label_position), for two
\* coordinates that carry the same shift.
WeightedPoint(c1, c2, p) ==
    IF c1.n2 = 0 \/ c2.n2 = 0 THEN NaNPoint
    ELSE [b |-> c1.b * p.num + c2.b * (p.den - p.num), den |-> p.den,
          k |-> c1.k, num |-> c1.num, n2 |-> c1.n2]

\* The position (x, y) of the label of the edge from ps[n1] to ps[n2]:
\* the endpoints shifted by k half widths when `shift` holds, then weighted.
LabelPosition(e, ps, shift, k, p) ==
    LET x1 == ps[e[1]][1]
        y1 == ps[e[1]][2]
        x2 == ps[e[2]][1]
        y2 == ps[e[2]][2]
        sh == IF shift THEN _shift_edge(x1, y1, x2, y2, k)
              ELSE <<Exact(x1), Exact(y1), Exact(x2), Exact(y2)>>
    IN  << WeightedPoint(sh[1], sh[3], p), WeightedPoint(sh[2], sh[4], p) >>

\* draw_edge_labels(edge_list, edge_labels, node_positions): a text object
\* for every labelled edge that is not a self-loop, shifted by one edge
\* width when the reverse edge is in edge_list.
draw_edge_labels(el, labelled, ps, p) ==
    [e \in {l \in Range(labelled) : l[1] # l[2]} |->
        LabelPosition(e, ps, InSeq(<<e[2], e[1]>>, el), 2, p)]

\* draw_node_labels: a text object at the position of each labelled node.
draw_node_labels(labelled, ps) == [n \in labelled |-> ps[n]]

\* An opacity num / den; halving a float is exact, so 0.5 * (num / den) is
\* num / (2 * den).  NoAlpha is get_alpha() of an artist whose alpha is None.
Alpha(num, den) == [num |-> num, den |-> den]

NoAlpha == [num |-> 0, den |-> 0]

\* The graphs an InteractiveGraph is constructed from: a single edge drawn
\* straight, without node labels or with a label on node 2 only, and a
\* bidirectional pair with a self-loop, drawn curved, every node labelled.
\* node_alpha is 1.0 for every node, or a dictionary: 0.5 for node 1 and
\* 1.0 for node 2, or no alpha (None) for node 1 and 0.5 for node 2.
\* edge_labels lists the labelled edges in the order of the dictionary: the
\* single edge, none (no attribute edge_label_artists), or every edge.
Graphs ==
    { [edge_list |-> << <<1, 2>> >>, curved |-> FALSE, node_labels |-> {},
       edge_labels |-> << <<1, 2>> >>, edge_label_position |-> HalfWay,
       node_alpha |-> <<Alpha(1, 1), Alpha(1, 1)>>],
      [edge_list |-> << <<1, 2>> >>, curved |-> FALSE, node_labels |-> {2},
       edge_labels |-> <<>>, edge_label_position |-> HalfWay,
       node_alpha |-> <<Alpha(1, 2), Alpha(1, 1)>>],
      [edge_list |-> << <<1, 2>>, <<2, 1>>, <<1, 1>> >>, curved |-> TRUE,
       node_labels |-> Nodes,
       edge_labels |-> << <<1, 2>>, <<2, 1>>, <<1, 1>> >>,
       edge_label_position |-> HalfWay,
       node_alpha |-> <<NoAlpha, Alpha(1, 2)>>] }

Layout == [n \in Nodes |-> <<n - 1, 0>>]

\* The result of a routing function that has not been called.
NotCalled == [called |-> FALSE, raised |-> "", paths |-> EmptyDict]

NoPositions == [called |-> FALSE, updated |-> FALSE, xy |-> EmptyDict]

\* No press yet, or the history of the last gesture has been dropped.
NoGesture ==
    [press |-> "none", artist |-> None, ctrl |-> FALSE, before |-> {}, after |-> {},
     moved |-> FALSE, released |-> FALSE, outside |-> FALSE, band |-> "none"]

Init ==
    /\ \E graph \in Graphs :
          /\ edge_list = graph.edge_list
          /\ draw_edges(graph.edge_list, Layout, graph.curved).raised = ""
          /\ edge_midline = draw_edges(graph.edge_list, Layout, graph.curved).paths
          /\ node_label_artists = [hasattr |-> graph.node_labels # {},
                                   xy |-> draw_node_labels(graph.node_labels, Layout)]
          /\ edge_label_artists =
                [hasattr |-> graph.edge_labels # <<>>,
                 xy |-> draw_edge_labels(graph.edge_list, graph.edge_labels, Layout,
                                         graph.edge_label_position)]
          /\ alpha = [a \in Nodes |-> graph.node_alpha[a]]
          /\ _base_alpha = [a \in Nodes |-> graph.node_alpha[a]]
    /\ node_positions = Layout
    /\ artist_xy = Layout
    /\ _selected_artists = <<>>
    /\ _offset = EmptyDict
    /\ _clicked_artist = None
    /\ _control_is_held = FALSE
    /\ _currently_clicking_on_artist = FALSE
    /\ _currently_dragging = FALSE
    /\ _currently_selecting = FALSE
    /\ _rect_visible = FALSE
    /\ _x0 = 0 /\ _y0 = 0 /\ _x1 = 0 /\ _y1 = 0
    /\ errors = 0
    /\ gesture = NoGesture
    /\ total_control_points_per_edge = 0
    /\ straight = NotCalled
    /\ inserted = <<>>
    /\ control_point_positions = NoPositions

\* --------------------------------------------------------------- events
\* A pointer event: inaxes, and the data coordinates (None outside the axes).
InsideEvents == [inaxes : {TRUE}, xdata : Xs, ydata : Ys]

OutsideEvents == [inaxes : {FALSE}, xdata : {None}, ydata : {None}]

PointerEvents == InsideEvents \cup OutsideEvents

KeyEvents == [key : {"control", "shift"}]

\* ----------------------------------------------------------- selection
\* artist.contains(event)[0]: the pointer is on the artist's patch.  Grid
\* points are further apart than a node's radius.
Contains(artist, event) == artist_xy[artist] = <<event.xdata, event.ydata>>

\* The first artist of self._draggable_artists under the pointer, or None.
RECURSIVE FirstHit(_, _)
FirstHit(artists, event) ==
    IF artists = <<>> THEN None
    ELSE IF Contains(Head(artists), event) THEN Head(artists)
         ELSE FirstHit(Tail(artists), event)

_select_artist(selected, artist) ==
    IF InSeq(artist, selected) THEN selected ELSE Append(selected, artist)

_deselect_artist(selected, artist) ==
    IF InSeq(artist, selected) THEN Without(selected, artist) ELSE selected

_toggle_select_artist(selected, artist) ==
    IF InSeq(artist, selected) THEN _deselect_artist(selected, artist)
    ELSE _select_artist(selected, artist)

\* A _deselect_all_artists that forgets to deselect.
DeselectsNothing(selected) == selected

_deselect_all_artists(selected) == <<>>

\* try: artist.set_alpha(0.5 * alpha) except TypeError: artist.set_alpha(0.5)
HalfAlpha(al) ==
    IF al = NoAlpha THEN Alpha(1, 2) ELSE Alpha(al.num, 2 * al.den)

\* A _select_artist that halves the alpha of an artist selected already.
SelectAlphaAgain(al, selected, artist) ==
    [al EXCEPT ![artist] = HalfAlpha(al[artist])]

\* The artists' alpha after _select_artist(artist) on the selection `selected`.
SelectAlpha(al, selected, artist) ==
    IF InSeq(artist, selected) THEN al
    ELSE [al EXCEPT ![artist] = HalfAlpha(al[artist])]

\* The artists' alpha after _deselect_artist(artist).
DeselectAlpha(al, selected, artist) ==
    IF InSeq(artist, selected) THEN [al EXCEPT ![artist] = _base_alpha[artist]]
    ELSE al

\* The artists' alpha after _toggle_select_artist(artist).
ToggleAlpha(al, selected, artist) ==
    IF InSeq(artist, selected) THEN DeselectAlpha(al, selected, artist)
    ELSE SelectAlpha(al, selected, artist)

\* The artists' alpha after _deselect_all_artists().
DeselectAllAlpha(al, selected) ==
    [a \in DOMAIN al |-> IF InSeq(a, selected) THEN _base_alpha[a] ELSE al[a]]

Min2(a, b) == IF a <= b THEN a ELSE b

Max2(a, b) == IF a <= b THEN b ELSE a

\* _is_inside_rect(x, y) on the rectangle (x0, y0), (x1, y1).
_is_inside_rect(x, y) ==
    /\ Min2(_x0, _x1) <= x /\ x < Max2(_x0, _x1)
    /\ Min2(_y0, _y1) <= y /\ y < Max2(_y0, _y1)

\* The loop of _on_release over self._draggable_artists while selecting.
RECURSIVE SelectInside(_, _)
SelectInside(artists, selected) ==
    IF artists = <<>> THEN selected
    ELSE LET a == Head(artists)
             next == IF _is_inside_rect(artist_xy[a][1], artist_xy[a][2])
                     THEN IF _control_is_held
                          THEN _toggle_select_artist(selected, a)
                          ELSE _select_artist(selected, a)
                     ELSE selected
         IN  SelectInside(Tail(artists), next)

\* The artists' alpha after the same loop.
RECURSIVE SelectInsideAlpha(_, _, _)
SelectInsideAlpha(artists, selected, al) ==
    IF artists = <<>> THEN al
    ELSE LET a == Head(artists)
             inside == _is_inside_rect(artist_xy[a][1], artist_xy[a][2])
             next == IF ~inside THEN selected
                     ELSE IF _control_is_held THEN _toggle_select_artist(selected, a)
                     ELSE _select_artist(selected, a)
             nextal == IF ~inside THEN al
                       ELSE IF _control_is_held THEN ToggleAlpha(al, selected, a)
                       ELSE SelectAlpha(al, selected, a)
         IN  SelectInsideAlpha(Tail(artists), next, nextal)

\* -------------------------------------------------------------- history
\* gesture records, for the claims about whole gestures, the last press
\* inside the axes (on which artist, with the modifier or not, the selection
\* before it and, until the release, the selection after it), whether a move inside the axes or a release followed, and
\* with `band` how the rubber band now being drawn was started.  The details
\* of the press are dropped at the first move, and the whole record at the
\* first event after a release.  `outside` says that the last event was a
\* press or a move outside the axes, delivered between a press and its release.
Dropped(g) == IF g.released THEN NoGesture ELSE [g EXCEPT !.outside = FALSE]

AfterOutside(g) ==
    IF g.released \/ g.press = "none" THEN Dropped(g) ELSE [g EXCEPT !.outside = TRUE]

AfterPress(event, artist) ==
    [press |-> IF artist = None THEN "canvas" ELSE "item",
     artist |-> artist,
     ctrl |-> _control_is_held,
     before |-> Range(_selected_artists),
     after |-> Range(_selected_artists'),
     moved |-> FALSE,
     released |-> FALSE,
     outside |-> FALSE,
     band |-> IF artist # None THEN Dropped(gesture).band
              ELSE IF _control_is_held THEN "ctrl" ELSE "plain"]

AfterMotion(g) ==
    IF g.press = "none" THEN g
    ELSE [g EXCEPT !.moved = TRUE, !.artist = None, !.ctrl = FALSE, !.before = {}]

AfterRelease(g) == [g EXCEPT !.released = TRUE, !.after = {}]

\* ---------------------------------------------------------------- press
\* A press that clears the selection whether the modifier is held or not.
DeselectAlways(selected) == _deselect_all_artists(selected)

\* if not self._control_is_held: self._deselect_all_artists()
DeselectUnlessControl(selected) ==
    IF _control_is_held THEN selected ELSE _deselect_all_artists(selected)

\* self._clicked_artist after a press on `artist`: the artist when it was
\* already selected (the decision is deferred to the release), else None.
ClickedArtist(artist) ==
    IF InSeq(artist, _selected_artists) THEN artist ELSE None

\* Offsets recorded for the first selected artist alone.
OffsetOfFirstSelected(selected, event) ==
    [a \in {Head(selected)} |->
        << artist_xy[a][1] - event.xdata, artist_xy[a][2] - event.ydata >>]

\* self._offset = {artist : artist.xy - np.array([event.xdata, event.ydata])
\*                 for artist in self._selected_artists}
DragOffsets(selected, event) ==
    [a \in Range(selected) |->
        << artist_xy[a][1] - event.xdata, artist_xy[a][2] - event.ydata >>]

\* A handler that does not look at event.inaxes.
AlwaysInAxes(event) == TRUE

\* if event.inaxes:
InAxes(event) == event.inaxes

_on_press(event) ==
    IF InAxes(event)
    THEN LET artist == FirstHit(NodeOrder, event)
             cleared == DeselectUnlessControl(_selected_artists)
             faded == IF _control_is_held THEN alpha
                      ELSE DeselectAllAlpha(alpha, _selected_artists)
             selected == IF artist = None THEN cleared
                         ELSE IF InSeq(artist, _selected_artists) THEN _selected_artists
                         ELSE _select_artist(cleared, artist)
         IN  /\ _x0' = event.xdata /\ _y0' = event.ydata
             /\ _x1' = event.xdata /\ _y1' = event.ydata
             /\ _selected_artists' = selected
             /\ alpha' = IF artist = None THEN faded
                         ELSE IF InSeq(artist, _selected_artists) THEN alpha
                         ELSE SelectAlpha(faded, cleared, artist)
             /\ IF artist # None
                THEN /\ _clicked_artist' = ClickedArtist(artist)
                     /\ _currently_clicking_on_artist' = TRUE
                     /\ _offset' = DragOffsets(selected, event)
                     /\ UNCHANGED _currently_selecting
                ELSE /\ _clicked_artist' = None
                     /\ _currently_selecting' = TRUE
                     /\ UNCHANGED <<_currently_clicking_on_artist, _offset>>
             /\ UNCHANGED <<_base_alpha, _control_is_held, _currently_dragging,
                            _rect_visible>>
             /\ gesture' = AfterPress(event, artist)
             /\ UNCHANGED <<graph_vars, errors, route_vars>>
    ELSE /\ gesture' = AfterOutside(gesture)          \* "Warning: clicked outside axis limits!"
         /\ UNCHANGED <<graph_vars, machine_vars, errors, route_vars>>

\* ----------------------------------------------------------------- move
\* The number of leading elements of s that are keys of the dict d: a loop
\* that looks each element up in d raises KeyError at the next one.
RECURSIVE PrefixIn(_, _)
PrefixIn(s, keys) ==
    IF s = <<>> \/ Head(s) \notin keys THEN 0
    ELSE 1 + PrefixIn(Tail(s), keys)

First(s, k) == {s[i] : i \in 1 .. Min2(k, Len(s))}

\* A move that puts every node, selected or not, under the pointer.
MovedAllPositions(selected, offset, cursor, ps) == [n \in DOMAIN ps |-> cursor]

\* The first loop of InteractiveGraph._move: node_positions[node] =
\* cursor_position + self._offset[artist], for the artists it gets through.
MovedPositions(selected, offset, cursor, ps) ==
    LET done == First(selected, PrefixIn(selected, DOMAIN offset))
    IN  [n \in DOMAIN ps |->
            IF n \in done
            THEN <<cursor[1] + offset[n][1], cursor[2] + offset[n][2]>>
            ELSE ps[n]]

\* _update_nodes(nodes): artist.xy, then the node's label if the graph has
\* the attribute node_label_artists; a node without a label raises KeyError.
_update_nodes(nodes, ps, axy, labels) ==
    LET k == IF labels.hasattr THEN PrefixIn(nodes, DOMAIN labels.xy) ELSE Len(nodes)
    IN  [raised |-> IF k < Len(nodes) THEN "KeyError" ELSE "",
         artist_xy |-> [n \in DOMAIN axy |->
                          IF n \in First(nodes, k + 1) THEN ps[n] ELSE axy[n]],
         labels |-> [labels EXCEPT !.xy =
                       [n \in DOMAIN labels.xy |->
                          IF n \in First(nodes, k) THEN ps[n] ELSE labels.xy[n]]]]

\* Every edge of the graph, whatever moved.
EveryEdge(el, nodes) == el

\* [e for e in s if keep(e)], for the two filters of _update_edges.
RECURSIVE IncidentEdges(_, _)
IncidentEdges(el, nodes) ==
    IF el = <<>> THEN <<>>
    ELSE LET e == Head(el)
             rest == IncidentEdges(Tail(el), nodes)
         IN  IF (e[1] \in nodes \/ e[2] \in nodes) /\ e[1] # e[2]
             THEN <<e>> \o rest ELSE rest

\* _update_edges(nodes): the straight path of every edge with an endpoint
\* among the moved nodes, self-loops left out, shifted by half the edge
\* width when the reverse edge is among them.
_update_edges(nodes, el, ps, midline) ==
    LET edges == IncidentEdges(el, nodes)
        path(e) ==
            LET x0 == ps[e[1]][1]
                y0 == ps[e[1]][2]
                x1 == ps[e[2]][1]
                y1 == ps[e[2]][2]
                sh == _shift_edge(x0, y0, x1, y1, 1)
            IN  IF InSeq(Reverse(e), edges)
                THEN Midline(sh[1], sh[2], sh[3], sh[4])
                ELSE Midline(Exact(x0), Exact(y0), Exact(x1), Exact(y1))
    IN  [e \in DOMAIN midline |-> IF InSeq(e, edges) THEN path(e) ELSE midline[e]]

\* _update_edge_labels(edges, node_positions): the label of every edge of
\* `edges`, in order, at the middle of the endpoints shifted by one and a half
\* edge widths when (n1, n2) is in `edges`; an edge without a label raises
\* KeyError at set_position.
_update_edge_labels(edges, ps, labels) ==
    LET k == PrefixIn(edges, DOMAIN labels)
    IN  [raised |-> IF k < Len(edges) THEN "KeyError" ELSE "",
         xy |-> [e \in DOMAIN labels |->
                   IF e \in First(edges, k)
                   THEN LabelPosition(e, ps, InSeq(e, edges), 3, HalfWay)
                   ELSE labels[e]]]

\* InteractiveGraph._move(event).
_move(event) ==
    LET cursor_position == <<event.xdata, event.ydata>>
        complete == Range(_selected_artists) \subseteq DOMAIN _offset
        positions == MovedPositions(_selected_artists, _offset,
                                    cursor_position, node_positions)
        updated == _update_nodes(_selected_artists, positions, artist_xy,
                                 node_label_artists)
        edges == IncidentEdges(edge_list, Range(_selected_artists))
        relabelled ==
            IF complete /\ updated.raised = "" /\ edge_label_artists.hasattr
            THEN _update_edge_labels(edges, positions, edge_label_artists.xy)
            ELSE [raised |-> "", xy |-> edge_label_artists.xy]
    IN  /\ \A n \in Nodes : positions[n] \in Points     \* the grid bounds the model
        /\ node_positions' = positions
        /\ IF complete
           THEN /\ artist_xy' = updated.artist_xy
                /\ node_label_artists' = updated.labels
                /\ IF updated.raised = ""
                   THEN edge_midline' = _update_edges(Range(_selected_artists), edge_list,
                                                      positions, edge_midline)
                   ELSE UNCHANGED edge_midline
           ELSE UNCHANGED <<artist_xy, node_label_artists, edge_midline>>
        /\ edge_label_artists' = [edge_label_artists EXCEPT !.xy = relabelled.xy]
        /\ errors' = IF complete /\ updated.raised = "" /\ relabelled.raised = ""
                     THEN errors ELSE errors + 1
        /\ errors' <= MaxErrors                         \* the bound on raising calls
        /\ UNCHANGED <<edge_list, route_vars>>

_on_motion(event) ==
    IF InAxes(event)
    THEN IF _currently_clicking_on_artist
         THEN /\ _currently_dragging' = TRUE
              /\ _move(event)
              /\ UNCHANGED <<alpha, _base_alpha, _selected_artists, _offset,
                             _clicked_artist,
                             _control_is_held, _currently_clicking_on_artist,
                             _currently_selecting, _rect_visible,
                             _x0, _y0, _x1, _y1>>
              /\ gesture' = AfterMotion(Dropped(gesture))
         ELSE IF _currently_selecting
         THEN /\ _x1' = event.xdata
              /\ _y1' = event.ydata
              /\ _rect_visible' = TRUE                  \* _selector_on()
              /\ UNCHANGED <<alpha, _base_alpha, _selected_artists, _offset,
                             _clicked_artist,
                             _control_is_held, _currently_clicking_on_artist,
                             _currently_dragging, _currently_selecting, _x0, _y0>>
              /\ gesture' = AfterMotion(Dropped(gesture))
              /\ UNCHANGED <<graph_vars, errors, route_vars>>
         ELSE /\ gesture' = AfterMotion(Dropped(gesture))
              /\ UNCHANGED <<graph_vars, machine_vars, errors, route_vars>>
    ELSE /\ gesture' = AfterOutside(gesture)
         /\ UNCHANGED <<graph_vars, machine_vars, errors, route_vars>>

\* -------------------------------------------------------------- release
\* A test that forgets the drag: any press on a selected artist counts.
ClickOnSelected == _clicked_artist # None

\* if (self._clicked_artist is not None) & (self._currently_dragging is False):
ClickWithoutDrag == _clicked_artist # None /\ _currently_dragging = FALSE

\* A release handled as one more move of the pointer.
MovingRelease(event) == _on_motion(event)

_on_release(event) ==
    IF _currently_selecting
    THEN /\ _selected_artists' = SelectInside(NodeOrder, _selected_artists)
         /\ alpha' = SelectInsideAlpha(NodeOrder, _selected_artists, alpha)
         /\ _currently_selecting' = FALSE
         /\ _rect_visible' = FALSE
         /\ UNCHANGED <<_base_alpha, _offset, _clicked_artist, _control_is_held,
                        _currently_clicking_on_artist, _currently_dragging,
                        _x0, _y0, _x1, _y1>>
         /\ gesture' = AfterRelease(Dropped(gesture))
         /\ UNCHANGED <<graph_vars, errors, route_vars>>
    ELSE IF _currently_clicking_on_artist
    THEN /\ _selected_artists' =
               IF ClickWithoutDrag
               THEN IF _control_is_held
                    THEN _toggle_select_artist(_selected_artists, _clicked_artist)
                    ELSE _select_artist(_deselect_all_artists(_selected_artists),
                                        _clicked_artist)
               ELSE _selected_artists
         /\ alpha' =
               IF ClickWithoutDrag
               THEN IF _control_is_held
                    THEN ToggleAlpha(alpha, _selected_artists, _clicked_artist)
                    ELSE SelectAlpha(DeselectAllAlpha(alpha, _selected_artists),
                                     _deselect_all_artists(_selected_artists),
                                     _clicked_artist)
               ELSE alpha
         /\ _currently_clicking_on_artist' = FALSE
         /\ _currently_dragging' = FALSE
         /\ UNCHANGED <<_base_alpha, _offset, _clicked_artist, _control_is_held,
                        _currently_selecting, _rect_visible, _x0, _y0, _x1, _y1>>
         /\ gesture' = AfterRelease(Dropped(gesture))
         /\ UNCHANGED <<graph_vars, errors, route_vars>>
    ELSE /\ gesture' = AfterRelease(Dropped(gesture))
         /\ UNCHANGED <<graph_vars, machine_vars, errors, route_vars>>

\* ----------------------------------------------------------------- keys
_on_key_press(event) ==
    /\ _control_is_held' = IF event.key = "control" THEN TRUE ELSE _control_is_held
    /\ UNCHANGED <<alpha, _base_alpha, _selected_artists, _offset, _clicked_artist,
                   _currently_clicking_on_artist, _currently_dragging,
                   _currently_selecting, _rect_visible, _x0, _y0, _x1, _y1>>
    /\ gesture' = Dropped(gesture)
    /\ UNCHANGED <<graph_vars, errors, route_vars>>

_on_key_release(event) ==
    /\ _control_is_held' = IF event.key = "control" THEN FALSE ELSE _control_is_held
    /\ UNCHANGED <<alpha, _base_alpha, _selected_artists, _offset, _clicked_artist,
                   _currently_clicking_on_artist, _currently_dragging,
                   _currently_selecting, _rect_visible, _x0, _y0, _x1, _y1>>
    /\ gesture' = Dropped(gesture)
    /\ UNCHANGED <<graph_vars, errors, route_vars>>

\* -------------------------------------------------------- specification
Next ==
    \/ \E event \in PointerEvents : _on_press(event)
    \/ \E event \in PointerEvents : _on_release(event)
    \/ \E event \in PointerEvents : _on_motion(event)
    \/ \E event \in KeyEvents : _on_key_press(event)
    \/ \E event \in KeyEvents : _on_key_release(event)

Spec == Init /\ [][Next]_vars

\* ============================================================== routing
\* The edge-routing functions, called on their own: a second specification
\* draws an edge list, node positions and a subdivision count, and applies
\* the functions to them.

\* range(a, b)
PyRange(a, b) == [j \in 1 .. (b - a) |-> a + j - 1]

\* list(zip(a, b))
Zip(a, b) == [i \in 1 .. Min2(Len(a), Len(b)) |-> <<a[i], b[i]>>]

Endpoints(el) == {e[1] : e \in Range(el)} \cup {e[2] : e \in Range(el)}

\* np.max(edge_list) of an edge list that is not empty.
MaxNode(el) == CHOOSE m \in Endpoints(el) : \A k \in Endpoints(el) : k <= m

\* A counter that goes on where the last call left it.
CounterAfterCalls(el) == MaxNode(el) + 1 + Len(inserted)

\* ctr = np.max(edge_list) + 1
FirstControlPoint(el) == MaxNode(el) + 1

\* One control point too few: range(ctr, ctr+n-1).
ControlPointsButOne(ctr, n) == PyRange(ctr, ctr + n - 1)

\* control_points = list(range(ctr, ctr+n))
ControlPoints(ctr, n) == PyRange(ctr, ctr + n)

\* The loop of _insert_control_points from the counter value ctr on.
RECURSIVE InsertFrom(_, _, _)
InsertFrom(el, n, ctr) ==
    IF el = <<>> THEN [new_edge_list |-> <<>>, edge_to_control_points |-> EmptyDict]
    ELSE LET source == Head(el)[1]
             target == Head(el)[2]
             control_points == ControlPoints(ctr, n)
             sources == <<source>> \o control_points
             targets == control_points \o <<target>>
             rest == InsertFrom(Tail(el), n, ctr + n)
         IN  [new_edge_list |-> Zip(sources, targets) \o rest.new_edge_list,
              edge_to_control_points |->
                  rest.edge_to_control_points @@ (Head(el) :> control_points)]

\* _insert_control_points(edge_list, n); np.max of an empty list raises.
_insert_control_points(el, n) ==
    IF el = <<>>
    THEN [raised |-> "ValueError", new_edge_list |-> <<>>,
          edge_to_control_points |-> EmptyDict]
    ELSE LET r == InsertFrom(el, n, FirstControlPoint(el))
         IN  [raised |-> "", new_edge_list |-> r.new_edge_list,
              edge_to_control_points |-> r.edge_to_control_points]

\* -------------------------------------------- control point positions
\* The position of a control point, kept exactly.  On the segment of its
\* edge it is (x / den, y / den).  On the loop of an edge whose endpoints
\* coincide it is on the circle of radius selfloop_radius around
\* (x / den, y / den) + selfloop_radius * u, u the unit vector along (ux, uy),
\* turned by turn / den of a full turn from the point where the node is.
OnSegment(x, y, den) ==
    [kind |-> "segment", x |-> x, y |-> y, den |-> den, ux |-> 0, uy |-> 0, turn |-> 0]

OnLoop(x, y, den, ux, uy, turn) ==
    [kind |-> "loop", x |-> x, y |-> y, den |-> den, ux |-> ux, uy |-> uy, turn |-> turn]

\* The unit vector is delta / 0: every coordinate of the loop is nan.
NaNPosition ==
    [kind |-> "nan", x |-> 0, y |-> 0, den |-> 0, ux |-> 0, uy |-> 0, turn |-> 0]

\* The sum of coordinate k over the positions of the nodes in D.
RECURSIVE SumOf(_, _, _)
SumOf(ps, D, k) ==
    IF D = {} THEN 0
    ELSE LET d == CHOOSE d \in D : TRUE
         IN  ps[d][k] + SumOf(ps, D \ {d}, k)

\* The position given to the i-th (from 1) of the len control points of the
\* edge (source, target).
ControlPointPosition(source, target, i, len, ps) ==
    LET edge_origin == ps[source]
        dx == ps[target][1] - ps[source][1]
        dy == ps[target][2] - ps[source][2]
        den == len + 1
        count == Cardinality(DOMAIN ps)
        \* edge_origin - centroid, times len(node_positions)
        ux == IF count > 1 THEN count * edge_origin[1] - SumOf(ps, DOMAIN ps, 1) ELSE 0
        uy == IF count > 1 THEN count * edge_origin[2] - SumOf(ps, DOMAIN ps, 2) ELSE 1
    IN  IF dx # 0 \/ dy # 0                       \* distance > 1e-12
        THEN OnSegment(den * edge_origin[1] + i * dx, den * edge_origin[2] + i * dy, den)
        ELSE IF ux = 0 /\ uy = 0
             THEN NaNPosition
             ELSE OnLoop(den * edge_origin[1], den * edge_origin[2], den, ux, uy, i)

\* _initialize_control_point_positions(edge_to_control_points, node_positions)
_initialize_control_point_positions(cps, ps) ==
    LET all == UNION {Range(cps[e]) : e \in DOMAIN cps}
        edge(c) == CHOOSE e \in DOMAIN cps : c \in Range(cps[e])
        ii(c) == CHOOSE i \in DOMAIN cps[edge(c)] : cps[edge(c)][i] = c
    IN  [c \in all |->
            ControlPointPosition(edge(c)[1], edge(c)[2], ii(c), Len(cps[edge(c)]), ps)]

\* d.update(other): the keys of both, the values of `other` where it has one.
Update(d, other) ==
    [c \in DOMAIN d \cup DOMAIN other |-> IF c \in DOMAIN other THEN other[c] ELSE d[c]]

\* The position (x, y) of a node, written like that of a control point.
AsPosition(xy) == OnSegment(xy[1], xy[2], 1)

\* ---------------------------------------------------------------- inputs
Subdivisions == (0 - 1) .. MaxN

\* Edge lists of at most two edges, each edge once.
EdgeLists ==
    {<<>>} \cup {<<e>> : e \in Nodes \X Nodes}
           \cup {<<e, f>> : <<e, f>> \in {ef \in (Nodes \X Nodes) \X (Nodes \X Nodes) :
                                             ef[1] # ef[2]}}

\* Node positions: a position for each node of a set of nodes.
PositionMaps == UNION {[D -> Points] : D \in (SUBSET Nodes) \ {{}}}

RouteInit ==
    /\ edge_list \in EdgeLists
    /\ node_positions \in PositionMaps
    /\ Endpoints(edge_list) \subseteq DOMAIN node_positions
    /\ total_control_points_per_edge \in Subdivisions
    /\ straight = NotCalled
    /\ inserted = <<>>
    /\ control_point_positions = NoPositions
    /\ artist_xy = EmptyDict                      \* nothing is drawn yet
    /\ node_label_artists = [hasattr |-> FALSE, xy |-> EmptyDict]
    /\ edge_midline = EmptyDict
    /\ edge_label_artists = [hasattr |-> FALSE, xy |-> EmptyDict]
    /\ alpha = EmptyDict
    /\ _base_alpha = EmptyDict
    /\ _selected_artists = <<>>
    /\ _offset = EmptyDict
    /\ _clicked_artist = None
    /\ _control_is_held = FALSE
    /\ _currently_clicking_on_artist = FALSE
    /\ _currently_dragging = FALSE
    /\ _currently_selecting = FALSE
    /\ _rect_visible = FALSE
    /\ _x0 = 0 /\ _y0 = 0 /\ _x1 = 0 /\ _y1 = 0
    /\ errors = 0
    /\ gesture = NoGesture

\* draw_edges(edge_list, node_positions) with curved=False.
DrawStraight ==
    /\ ~straight.called
    /\ straight' = LET r == draw_edges(edge_list, node_positions, FALSE)
                   IN  [called |-> TRUE, raised |-> r.raised, paths |-> r.paths]
    /\ UNCHANGED <<graph_vars, machine_vars, history_vars,
                   total_control_points_per_edge, inserted, control_point_positions>>

\* A call of _insert_control_points(edge_list, n), the first or the second
\* with the same arguments.
InsertControlPoints ==
    /\ Len(inserted) < 2
    /\ inserted' = Append(inserted,
                          _insert_control_points(edge_list, total_control_points_per_edge))
    /\ UNCHANGED <<graph_vars, machine_vars, history_vars,
                   total_control_points_per_edge, straight, control_point_positions>>

\* _get_curved_edge_paths: the positions of the control points of the first
\* call's result.
InitializeControlPointPositions ==
    /\ ~control_point_positions.called
    /\ inserted # <<>>
    /\ inserted[1].raised = ""
    /\ control_point_positions' =
          [called |-> TRUE, updated |-> FALSE,
           xy |-> _initialize_control_point_positions(inserted[1].edge_to_control_points,
                                                      node_positions)]
    /\ UNCHANGED <<graph_vars, machine_vars, history_vars,
                   total_control_points_per_edge, straight, inserted>>

\* _get_curved_edge_paths: control_point_positions.update(node_positions).
\* The dict that is written is the one _initialize_control_point_positions
\* has created; the caller's node_positions is read.
UpdateControlPointPositions ==
    /\ control_point_positions.called
    /\ ~control_point_positions.updated
    /\ control_point_positions' =
          [control_point_positions EXCEPT
              !.updated = TRUE,
              !.xy = Update(control_point_positions.xy,
                            [n \in DOMAIN node_positions |-> AsPosition(node_positions[n])])]
    /\ UNCHANGED <<graph_vars, machine_vars, history_vars,
                   total_control_points_per_edge, straight, inserted>>

RouteNext ==
    \/ DrawStraight
    \/ InsertControlPoints
    \/ InitializeControlPointPositions
    \/ UpdateControlPointPositions

RouteSpec == RouteInit /\ [][RouteNext]_vars

\* ================================================================ claims
Selected == Range(_selected_artists)

InsideRect == {a \in Nodes : _is_inside_rect(artist_xy[a][1], artist_xy[a][2])}

\* A press on an item, then a release, with no move inside the axes between.
Clicked ==
    gesture.released /\ gesture.press = "item" /\ ~gesture.moved

\* C1: during a drag, after every move event each selected item is at the
\* pointer position plus its drag offset; the offset is item position minus
\* pointer position as recorded at the press, and no move changes it.
C1_DragFollowsPointer ==
    [][\A event \in InsideEvents :
          /\ (_on_press(event) /\ FirstHit(NodeOrder, event) # None)
                => \A a \in Range(_selected_artists') :
                      _offset'[a] = << artist_xy[a][1] - event.xdata,
                                       artist_xy[a][2] - event.ydata >>
          /\ (_currently_clicking_on_artist /\ _on_motion(event))
                => /\ _offset' = _offset
                   /\ \A a \in Range(_selected_artists') :
                         /\ a \in DOMAIN _offset'
                         /\ artist_xy'[a] = << event.xdata + _offset'[a][1],
                                               event.ydata + _offset'[a][2] >>]_vars

\* C2: the stored path of every edge that is no self-loop runs from the
\* current position of its source to the current position of its target,
\* both shifted by half the edge width along the segment's normal when the
\* reverse edge exists: no path is stale with respect to node_positions.
RunsBetweenEndpoints(e, path) ==
    LET s == node_positions[e[1]]
        t == node_positions[e[2]]
        k == IF InSeq(Reverse(e), edge_list) THEN 1 ELSE 0
        ox == IF k = 0 THEN 0 ELSE 0 - (t[2] - s[2])
        oy == IF k = 0 THEN 0 ELSE t[1] - s[1]
        n2 == IF k = 0 THEN 1 ELSE ox * ox + oy * oy
        at(b, num) == [b |-> b, k |-> k, num |-> num, n2 |-> n2]
    IN  \/ path = BSpline(node_positions, e)
        \/ /\ n2 # 0
           /\ path = [kind |-> "line", p |-> <<at(s[1], ox), at(s[2], oy)>>,
                                       q |-> <<at(t[1], ox), at(t[2], oy)>>]

C2_NoStalePath ==
    \A e \in DOMAIN edge_midline :
        ~IsSelfLoop(e) => RunsBetweenEndpoints(e, edge_midline[e])

\* C3: a drag moves only selected items: no step changes the position of a
\* node that is not selected, so such a node is where it was before the press.
C3_OnlySelectedMove ==
    [][\A n \in Nodes :
          n \notin Selected
             => node_positions'[n] = node_positions[n] /\ artist_xy'[n] = artist_xy[n]]_vars

C3_Witness ==
    /\ _currently_dragging
    /\ \E n \in Nodes : n \notin Selected
    /\ \E m \in Selected : node_positions[m] # Layout[m] /\ artist_xy[m] # Layout[m]

\* C4: the release of a rubber-band selection selects every item inside the
\* rectangle (half-open on both axes), or toggles it if the modifier is held,
\* and leaves the membership of the items outside; when the rubber band was
\* started without the modifier the selection is then exactly the items inside.
C4_RubberBandRelease ==
    [][\A event \in PointerEvents :
          (_currently_selecting /\ _on_release(event))
             => /\ \A a \in Nodes :
                      (a \in Range(_selected_artists'))
                         <=> IF a \in InsideRect
                             THEN (_control_is_held => a \notin Selected)
                             ELSE a \in Selected
                /\ gesture.band = "plain"
                      => Range(_selected_artists') = InsideRect]_vars

\* C5: a press on an item that is not selected, the modifier not held, makes
\* the selection exactly that item.
C5_PlainPressSelectsOnlyItem ==
    ( /\ gesture.press = "item" /\ ~gesture.released /\ ~gesture.moved
      /\ ~gesture.ctrl
      /\ gesture.artist \notin gesture.before )
       => _selected_artists = <<gesture.artist>>

C5_Witness ==
    /\ gesture.press = "item" /\ ~gesture.released /\ ~gesture.moved
    /\ ~gesture.ctrl
    /\ gesture.artist \notin gesture.before
    /\ gesture.before # {}
    /\ _selected_artists = <<gesture.artist>>

\* C6: a press and release, with no move, on an unselected item while the
\* modifier is held adds the item and keeps every item selected before.
C6_ControlClickAdds ==
    (Clicked /\ gesture.ctrl /\ gesture.artist \notin gesture.before)
       => Selected = gesture.before \cup {gesture.artist}

C6_Witness ==
    /\ Clicked /\ gesture.ctrl /\ _control_is_held
    /\ gesture.before = {1} /\ gesture.artist = 2
    /\ _selected_artists = <<1, 2>>

\* C7: after a press on an item and a release with no move between, the
\* pressed item's membership is toggled if the modifier is held, and else
\* the selection is just the pressed item, selected before the press or not.
C7_ClickTogglesOrCollapses ==
    Clicked
       => /\ (gesture.ctrl /\ _control_is_held)
                => (gesture.artist \in Selected <=> gesture.artist \notin gesture.before)
          /\ (~gesture.ctrl /\ ~_control_is_held)
                => Selected = {gesture.artist}

\* C8: after every release the machine is Idle: the pressed-on-item flag, the
\* dragging flag and the rubber-band flag are all cleared.
C8_IdleAfterRelease ==
    gesture.released
       => /\ ~_currently_clicking_on_artist
          /\ ~_currently_dragging
          /\ ~_currently_selecting

\* C9: while the machine is rubber-band selecting, a move changes the
\* rectangle extent only: no position, and nothing else of the machine.
C9_BandMoveMovesNothing ==
    [][\A event \in PointerEvents :
          (_currently_selecting /\ _on_motion(event))
             => /\ UNCHANGED <<node_positions, artist_xy, edge_midline, node_label_artists>>
                /\ UNCHANGED <<_selected_artists, _offset, _x0, _y0>>]_vars

\* C10: a press, move or release outside the axes produces no transition:
\* flags, selection, offsets, rectangle and positions are unchanged.
C10_OutsideEventsIgnored ==
    [][\A event \in OutsideEvents :
          (_on_press(event) \/ _on_motion(event) \/ _on_release(event))
             => UNCHANGED <<graph_vars, machine_vars>>]_vars

\* C10 as amended: a press or a move outside the axes produces no
\* transition; a release is handled wherever the pointer is.
C10_OutsidePressAndMoveIgnored ==
    [][\A event \in OutsideEvents :
          (_on_press(event) \/ _on_motion(event))
             => UNCHANGED <<graph_vars, machine_vars>>]_vars

C10_Witness ==
    /\ gesture.outside
    /\ _currently_clicking_on_artist
    /\ _selected_artists # <<>>

\* C11: once the graph is constructed no handler call raises, whatever the
\* sequence of pointer and key events and whichever nodes carry labels.
C11_NoHandlerRaises == errors = 0

\* C12: in every reachable state a selected item has half the opacity it
\* was constructed with (0.5 if it had none) and an item that is not
\* selected has the opacity it was constructed with: none is halved twice.
C12_SelectedAtHalfOpacity ==
    \A a \in Nodes :
        alpha[a] = IF a \in Selected
                   THEN IF _base_alpha[a] = NoAlpha THEN Alpha(1, 2)
                        ELSE Alpha(_base_alpha[a].num, 2 * _base_alpha[a].den)
                   ELSE _base_alpha[a]

\* Both items selected, among them one constructed without opacity, after a
\* rubber band has selected over an item that was selected already.
C12_Witness ==
    /\ Selected = Nodes
    /\ \E a \in Nodes : _base_alpha[a] = NoAlpha /\ alpha[a] = Alpha(1, 2)
    /\ gesture.released /\ gesture.press = "canvas" /\ gesture.band = "ctrl"

\* The straight segment from node a to node b, moved by half the edge width
\* along the unit normal on the right of the direction of travel, (vy, -vx).
RightOfTravel(a, b) ==
    LET x1 == node_positions[a][1]
        y1 == node_positions[a][2]
        x2 == node_positions[b][1]
        y2 == node_positions[b][2]
        ox == y2 - y1
        oy == 0 - (x2 - x1)
        n2 == ox * ox + oy * oy
    IN  Midline(Shifted(x1, 1, ox, n2), Shifted(y1, 1, oy, n2),
                Shifted(x2, 1, ox, n2), Shifted(y2, 1, oy, n2))

\* C13: for every pair of nodes a, b (at different positions) with both
\* (a, b) and (b, a) in the edge list, straight routing returns for each
\* direction the segment between the nodes moved by exactly half the edge
\* width along the unit normal, to the right of its own direction of travel
\* (so the two segments are distinct, parallel and do not overlap).
C13_BidirectionalStraightPaths ==
    straight.called
       => \A e \in Range(edge_list) :
             ( /\ ~IsSelfLoop(e)
               /\ InSeq(Reverse(e), edge_list)
               /\ node_positions[e[1]] # node_positions[e[2]] )
                => /\ straight.raised = ""
                   /\ e \in DOMAIN straight.paths
                   /\ straight.paths[e] = RightOfTravel(e[1], e[2])

\* C14: drawing edges in straight mode with a self-loop in the edge list is
\* not fatal: the self-loop is left out of the result and every other edge
\* of the list is returned.
C14_SelfLoopDropped ==
    (straight.called /\ \E e \in Range(edge_list) : IsSelfLoop(e))
       => /\ straight.raised = ""
          /\ DOMAIN straight.paths = {e \in Range(edge_list) : ~IsSelfLoop(e)}

\* The results of the calls of _insert_control_points that returned.
Returned == {r \in Range(inserted) : r.raised = ""}

\* C15: within one call the control-point identifiers are pairwise distinct
\* across all edges, and none is a real node identifier: an endpoint of the
\* edge list or a key of the caller's position mapping.
C15_ControlPointsAreFresh ==
    \A r \in Returned :
        LET cps == r.edge_to_control_points
        IN  /\ \A e \in DOMAIN cps :
                   /\ Cardinality(Range(cps[e])) = Len(cps[e])
                   /\ \A f \in DOMAIN cps \ {e} : Range(cps[e]) \cap Range(cps[f]) = {}
                   /\ Range(cps[e]) \cap (Endpoints(edge_list) \cup DOMAIN node_positions) = {}

\* C16: for n >= 1 the augmented list holds, for the i-th edge (s, t) of the
\* list, the n+1 consecutive edges of the chain s, c1, ..., cn, t, where
\* c1..cn is what (s, t) is mapped to; it has (n+1) times as many edges as
\* the input and no edge of the input is in it.
C16_ChainPerEdge ==
    \A r \in Returned :
        total_control_points_per_edge >= 1
           => LET n == total_control_points_per_edge
                  new == r.new_edge_list
              IN  /\ Len(new) = (n + 1) * Len(edge_list)
                  /\ DOMAIN r.edge_to_control_points = Range(edge_list)
                  /\ \A i \in DOMAIN edge_list :
                        LET c == r.edge_to_control_points[edge_list[i]]
                            at == (i - 1) * (n + 1)
                        IN  /\ Len(c) = n
                            /\ new[at + 1] = <<edge_list[i][1], c[1]>>
                            /\ \A j \in 1 .. (n - 1) : new[at + 1 + j] = <<c[j], c[j + 1]>>
                            /\ new[at + n + 1] = <<c[n], edge_list[i][2]>>
                            /\ ~InSeq(edge_list[i], new)

C16_Witness ==
    /\ Returned # {}
    /\ total_control_points_per_edge = MaxN
    /\ Len(edge_list) = 2
    /\ \E e \in Range(edge_list) : IsSelfLoop(e)

\* C17: the control-point builder fails, returning nothing, when the edge
\* list is empty or when the subdivision count is less than 1.
C17_InvalidInputFails ==
    (edge_list = <<>> \/ total_control_points_per_edge < 1)
       => \A i \in DOMAIN inserted : inserted[i].raised # ""

InitialPositions(e) ==
    LET c == inserted[1].edge_to_control_points[e]
    IN  [i \in DOMAIN c |-> control_point_positions.xy[c[i]]]

Backwards(ps) == [i \in DOMAIN ps |-> ps[Len(ps) + 1 - i]]

\* C19: when both (A, B) and (B, A) are in the edge list (A and B at
\* different positions), the initial control-point positions of the two
\* directions differ: they are neither the same points nor the same points
\* in the opposite order.
C19_DirectionsRoutedApart ==
    control_point_positions.called
       => \A e \in Range(edge_list) :
             ( /\ ~IsSelfLoop(e)
               /\ InSeq(Reverse(e), edge_list)
               /\ node_positions[e[1]] # node_positions[e[2]]
               /\ total_control_points_per_edge >= 1 )
                => /\ InitialPositions(e) # InitialPositions(Reverse(e))
                   /\ InitialPositions(e) # Backwards(InitialPositions(Reverse(e)))

\* C20: every control point of an edge whose endpoints coincide has a
\* defined position, away from the node's: on the loop, turned from the
\* node by a fraction of a full turn that is no whole number.
C20_LoopPointsAwayFromNode ==
    control_point_positions.called
       => \A e \in Range(edge_list) :
             node_positions[e[1]] = node_positions[e[2]]
                => \A i \in DOMAIN InitialPositions(e) :
                      /\ InitialPositions(e)[i].kind = "loop"
                      /\ InitialPositions(e)[i].turn % InitialPositions(e)[i].den # 0

\* C22: a press on empty canvas starts the rubber band with both corners of
\* the rectangle at the press point; it clears the selection when the
\* modifier is not held and leaves the selection as it is when it is held.
C22_CanvasPressStartsBand ==
    [][\A event \in InsideEvents :
          (_on_press(event) /\ FirstHit(NodeOrder, event) = None)
             => /\ _currently_selecting'
                /\ _x0' = event.xdata /\ _x1' = event.xdata
                /\ _y0' = event.ydata /\ _y1' = event.ydata
                /\ _selected_artists' = IF _control_is_held THEN _selected_artists
                                        ELSE <<>>]_vars

\* A rubber band started with the modifier held, over a selection that the
\* press has kept.
C22_Witness ==
    /\ gesture.press = "canvas" /\ ~gesture.released /\ ~gesture.moved
    /\ gesture.ctrl
    /\ _currently_selecting
    /\ gesture.before # {}
    /\ Selected = gesture.before

\* C24: in every reachable state the machine is in one of the states Idle,
\* PressedOnItem, Dragging, RubberBandSelecting: the rubber-band flag and the
\* pressed-on-item flag are never both set, and the dragging flag is set only
\* while the pressed-on-item flag is.
C24_OneModeAtATime ==
    /\ ~(_currently_selecting /\ _currently_clicking_on_artist)
    /\ _currently_dragging => _currently_clicking_on_artist

\* C28: whenever the pressed-on-item flag is set every selected item has a
\* recorded drag offset, so that a move never looks up a missing offset.
C28_SelectedHaveOffsets ==
    _currently_clicking_on_artist => Selected \subseteq DOMAIN _offset

\* C29: in every reachable state the position held by each node's draggable
\* artist equals the node's entry in node_positions.
C29_ArtistAtNodePosition ==
    \A n \in Nodes : artist_xy[n] = node_positions[n]

\* C23: a release that ends a drag (a move was applied since the press, with
\* the pressed-on-item flag set) leaves every position as the last move set
\* it and the selection exactly as it was after the press, whether or not the
\* modifier is held or the pressed item was already selected.
C23_ReleaseAfterDragKeepsAll ==
    [][\A event \in PointerEvents :
          ( /\ gesture.press # "none" /\ gesture.moved /\ ~gesture.released
            /\ _currently_clicking_on_artist
            /\ _on_release(event) )
             => /\ node_positions' = node_positions
                /\ artist_xy' = artist_xy
                /\ Range(_selected_artists') = gesture.after]_vars

\* Two selected nodes dragged by a press on one of them, already selected,
\* and released with both still selected.
C23_Witness ==
    /\ gesture.press = "item" /\ gesture.moved /\ gesture.released
    /\ _clicked_artist # None
    /\ ~_currently_clicking_on_artist /\ ~_currently_selecting
    /\ Cardinality(Selected) = 2
    /\ node_positions # Layout
    /\ errors = 0

\* C25: node positions, edge paths and label positions change only on a move
\* event: every press, release, modifier-down and modifier-up leaves them
\* unchanged.
C25_OnlyMovesChangeGeometry ==
    [][\/ UNCHANGED <<node_positions, artist_xy, edge_midline,
                      node_label_artists, edge_label_artists>>
       \/ ~( \/ \E event \in PointerEvents : _on_press(event) \/ _on_release(event)
             \/ \E event \in KeyEvents : _on_key_press(event) \/ _on_key_release(event) )]_vars

\* Both nodes selected and both with an offset, after presses that followed
\* one another without a release.
C28_Witness ==
    /\ _currently_clicking_on_artist /\ _currently_selecting
    /\ Cardinality(Selected) = 2
    /\ DOMAIN _offset = Selected

\* A drag tick that gets through _update_nodes and _update_edges: a move
\* inside the axes with the pressed-on-item flag set, in which no call raises.
DragTick(event) ==
    _currently_clicking_on_artist /\ _on_motion(event) /\ errors' = errors

\* The edges whose label a drag tick sets: the labelled edges, self-loops
\* left out, with an endpoint among the moved nodes.
Relabelled ==
    {e \in DOMAIN edge_label_artists.xy : e[1] # e[2] /\ (e[1] \in Selected \/ e[2] \in Selected)}

\* The point at the relative position p between the two ends of a straight path.
PointOnPath(path, p) ==
    << WeightedPoint(path.p[1], path.q[1], p), WeightedPoint(path.p[2], path.q[2], p) >>

\* C21: after a drag tick the label of every recomputed edge is at the
\* configured relative point (the default, the midpoint) of that edge's newly
\* computed path, for unidirectional edges and for bidirectional pairs.
C21_LabelOnNewPath ==
    [][\A event \in InsideEvents :
          DragTick(event)
             => \A e \in Relabelled :
                   node_positions'[e[1]] # node_positions'[e[2]]
                      => edge_label_artists'.xy[e] = PointOnPath(edge_midline'[e], HalfWay)]_vars

\* C30: for the same node positions the drag updater puts an edge label where
\* the initial draw puts it (same bidirectional test, same lateral shift), so
\* that after a drag tick every incident label is where draw_edge_labels
\* would draw it.
C30_UpdaterAgreesWithDraw ==
    [][\A event \in InsideEvents :
          DragTick(event)
             => \A e \in Relabelled :
                   node_positions'[e[1]] # node_positions'[e[2]]
                      => edge_label_artists'.xy[e] =
                            draw_edge_labels(edge_list, <<e>>, node_positions', HalfWay)[e]]_vars

\* A straight path from ps[source] to ps[target], shifted or not.
Recomputed(e, path, ps) ==
    /\ path.kind = "line"
    /\ \A i \in 1 .. 2 :
          /\ path.p[i].n2 = 0 \/ path.p[i].b = ps[e[1]][i]
          /\ path.q[i].n2 = 0 \/ path.q[i].b = ps[e[2]][i]

C25_Witness ==
    /\ gesture.released /\ gesture.press = "item" /\ gesture.moved
    /\ ~_currently_clicking_on_artist /\ ~_currently_dragging
    /\ node_positions # Layout
    /\ artist_xy = node_positions
    /\ \A e \in DOMAIN edge_midline : ~IsSelfLoop(e) => RunsBetweenEndpoints(e, edge_midline[e])

\* The identifiers _insert_control_points has created for control points.
ControlPointIds ==
    UNION {Range(inserted[1].edge_to_control_points[e]) :
              e \in DOMAIN inserted[1].edge_to_control_points}

\* C27: curved routing does not modify the caller's node_positions: no step
\* of it changes the keys or the positions of the mapping, and when the
\* routing has merged the two dictionaries the caller's mapping contains no
\* identifier of a control point.
C27_CallerMappingUntouched ==
    [][/\ (InsertControlPoints \/ InitializeControlPointPositions
                               \/ UpdateControlPointPositions)
             => node_positions' = node_positions
       /\ UpdateControlPointPositions
             => \A c \in ControlPointIds : c \notin DOMAIN node_positions']_vars

====
